---- MODULE Spec2Model ----
(***************************************************************************)
(* Model of the workspace worker of triggerflow/golang-worker              *)
(* (src/worker.go): the bootstrap goroutine that reconciles the trigger    *)
(* cache (updateTriggers) and then runs the dispatch loop                  *)
(* (ProcessWorkspace), one processTrigger goroutine per trigger started at *)
(* bootstrap, the checkpointTriggers goroutines started on every fire, the *)
(* event sources that produce into the sink and the external storage.      *)
(*                                                                         *)
(* A trigger object is a heap cell (a *trigger.Trigger): its identity is   *)
(* its position in heap, so that two objects unmarshalled from the same    *)
(* payload are different objects, as two pointers are in the program.      *)
(* Condition and Action are functions of the trigger package: their result *)
(* is a nondeterministic choice.  A panic of contextualizeTrigger ends the *)
(* process and is not a behaviour of this model.                           *)
(***************************************************************************)
EXTENDS Integers, Sequences, FiniteSets, TLC

\* ---------------------------------------------------------------- bounds
\* Events the event sources produce in one behaviour.
MaxEvents == 2
\* Trigger objects the process allocates in one behaviour.
MaxTriggerObjects == 3
\* Capacity of the event sink (config.SinkMaxSize).
SinkMaxSize == 1
\* Capacity of a buffered EventChannel; an unbuffered one has capacity 0.
EventChannelCap == 2

\* ---------------------------------------------------------------- data
Keys == {"t1", "t2"}
TriggerIDs == {"t1", "t2"}
EventSourceNames == {"es1", "es2"}

ActEvt(s, t) == [subject |-> s, type |-> t]
OrdersCreated == ActEvt("orders", "created")
OrdersDeleted == ActEvt("orders", "deleted")

\* What an event source may publish.
EventKinds == {OrdersCreated, OrdersDeleted}

\* A stored payload: a JSON text that UnmarshalJSONTrigger accepts or rejects.
StoredTrigger(id, l) == [wellFormed |-> TRUE, TriggerID |-> id, ActivationEvents |-> l]
Malformed == [wellFormed |-> FALSE, TriggerID |-> "", ActivationEvents |-> <<>>]

\* The well-formed payloads: one or two activation events under either
\* identifier, and one trigger that lists the same pair twice.
WellFormed ==
    { StoredTrigger(id, l) :
        id \in TriggerIDs, l \in {<<OrdersCreated>>, <<OrdersCreated, OrdersDeleted>>} }
    \cup { StoredTrigger("t1", <<OrdersCreated, OrdersCreated>>) }
Payloads == WellFormed \cup {Malformed}

NoEvent == [id |-> 0, subject |-> "", type |-> ""]
Objs == 1..MaxTriggerObjects

VARIABLES
    storage,              \* the "triggers" collection: storage key -> payload
    Triggers,             \* workspace.Triggers: trigger id -> object
    TriggerEventMapping,  \* workspace.TriggerEventMapping: subject -> type -> objects
    heap,                 \* the trigger objects allocated so far
    EventChannel,         \* trg.EventChannel of every object
    chanCap,              \* capacity the trigger package gives an EventChannel
    EventSink,            \* workspace.EventSink
    published,            \* events produced so far
    mainPC,               \* position of the ProcessWorkspace goroutine
    event,                \* ProcessWorkspace: the event taken from the sink
    matchingTriggers,     \* ProcessWorkspace: the index entry being forwarded to
    fwd,                  \* ProcessWorkspace: position in matchingTriggers
    ret,                  \* where updateTriggers returns to
    allTriggers,          \* updateTriggers: what Get returned
    toVisit,              \* updateTriggers: keys of allTriggers not yet ranged over
    newTrigger,           \* updateTriggers: the object being indexed (0: none)
    actIdx,               \* updateTriggers: position in newTrigger.ActivationEvents
    proc,                 \* position of every object's processTrigger goroutine
    cur,                  \* processTrigger: the event received
    ckptStarted,          \* checkpointTriggers goroutines started and not yet run
    ckptWaiting,          \* checkpointTriggers goroutines blocked on CheckpointChannel
    CheckpointChannel,    \* triggers offered on workspace.CheckpointChannel
    commits,              \* CommitEvents calls per event source
    puts,                 \* TriggerStorage.Put calls on the "triggers" collection
    receipt,              \* what the dispatch loop did for the event it last took
    hits,                 \* ids of the events taken on an index hit, in order
    delivered,            \* per object, ids of the events sent on its channel
    evaluated,            \* per object, ids of the events its condition ran on
    fired,                \* per object, ids of the events its action ran on
    scheduled,            \* per object, ids of the events a checkpoint was started for
    failed,               \* objects whose condition or action returned an error
    verdict,              \* per object, what its condition returned last
    lastRun               \* what the previous updateTriggers read and left behind

dispatchVars == <<EventSink, mainPC, event, matchingTriggers, fwd, ret>>
updateVars == <<Triggers, TriggerEventMapping, heap, allTriggers, toVisit, newTrigger, actIdx>>
procVars == <<proc, cur, evaluated, fired, scheduled, failed, verdict>>
ckptVars == <<ckptStarted, ckptWaiting, CheckpointChannel, commits, puts>>
histVars == <<receipt, hits, delivered, lastRun>>
vars == <<storage, chanCap, published, EventChannel, dispatchVars, updateVars,
          procVars, ckptVars, histVars>>

\* ---------------------------------------------------------------- helpers
Range(f) == { f[x] : x \in DOMAIN f }

EmptyMap == [x \in {} |-> 0]

\* Every collection content the storage may hold.
Collections == UNION { [S -> Payloads] : S \in SUBSET Keys }

\* trigger.UnmarshalJSONTrigger: an error for a malformed payload, else the trigger.
UnmarshalJSONTrigger(json) ==
    [err |-> ~json.wellFormed,
     trigger |-> [TriggerID |-> json.TriggerID, ActivationEvents |-> json.ActivationEvents]]

\* trigger.MarshalJSONTrigger: the payload of a trigger object.
MarshalJSONTrigger(trg) ==
    [wellFormed |-> TRUE, TriggerID |-> trg.TriggerID,
     ActivationEvents |-> trg.ActivationEvents]

\* m[s][t] with the "ok" of a Go map read: a missing outer key reads as a nil map.
HasEntry(m, s, t) == s \in DOMAIN m /\ t \in DOMAIN m[s]

RECURSIVE Flatten(_, _)
Flatten(byType, types) ==
    IF types = {} THEN <<>>
    ELSE LET t == CHOOSE x \in types : TRUE IN byType[t] \o Flatten(byType, types \ {t})

\* Line 63 with the triggers of every type of the subject.
LookupAnyType(m, s, t) == Flatten(m[s], DOMAIN m[s])

\* Line 63: the triggers of the entry of (s, t).
Lookup(m, s, t) == m[s][t]

\* Lines 115-124: create the missing levels, then append the object to the entry.
AppendIndex(m, s, t, o) ==
    LET m1 == IF s \in DOMAIN m THEN m
              ELSE [x \in DOMAIN m \cup {s} |-> IF x = s THEN EmptyMap ELSE m[x]]
        inner == m1[s]
        inner2 == IF t \in DOMAIN inner THEN inner
                  ELSE [y \in DOMAIN inner \cup {t} |-> IF y = t THEN <<>> ELSE inner[y]]
        inner3 == [y \in DOMAIN inner2 |-> IF y = t THEN Append(inner2[y], o) ELSE inner2[y]]
    IN [x \in DOMAIN m1 |-> IF x = s THEN inner3 ELSE m1[x]]

\* workspace.Triggers[id] = o
SetTrigger(reg, id, o) == [x \in DOMAIN reg \cup {id} |-> IF x = id THEN o ELSE reg[x]]

\* A send on a channel of capacity c > 0 holding q.
CanSend(q, c) == Len(q) < c
\* A send that puts the value ahead of the values already buffered.
ChanSendFront(q, e) == <<e>> \o q
ChanSend(q, e) == Append(q, e)
\* A receive from a channel holding q.
ChanRecvValue(q) == Head(q)
ChanRecvRest(q) == Tail(q)

\* ---------------------------------------------------------------- initial state
Init ==
    /\ storage \in Collections
    /\ chanCap \in {0, EventChannelCap}
    /\ Triggers = EmptyMap
    /\ TriggerEventMapping = EmptyMap
    /\ heap = <<>>
    /\ EventChannel = [o \in Objs |-> <<>>]
    /\ EventSink = <<>>
    /\ published = 0
    /\ mainPC = "start"
    /\ event = NoEvent
    /\ matchingTriggers = <<>>
    /\ fwd = 0
    /\ ret = "spawn"
    /\ allTriggers = EmptyMap
    /\ toVisit = {}
    /\ newTrigger = 0
    /\ actIdx = 0
    /\ proc = [o \in Objs |-> "none"]
    /\ cur = [o \in Objs |-> NoEvent]
    /\ ckptStarted = 0
    /\ ckptWaiting = 0
    /\ CheckpointChannel = <<>>
    /\ commits = [s \in EventSourceNames |-> 0]
    /\ puts = <<>>
    /\ receipt = [miss |-> FALSE, updates |-> 0, resubmitted |-> <<>>, forwards |-> 0]
    /\ hits = <<>>
    /\ delivered = [o \in Objs |-> <<>>]
    /\ evaluated = [o \in Objs |-> <<>>]
    /\ fired = [o \in Objs |-> <<>>]
    /\ scheduled = [o \in Objs |-> <<>>]
    /\ failed = {}
    /\ verdict = [o \in Objs |-> "none"]
    /\ lastRun = [read |-> EmptyMap, Triggers |-> EmptyMap, index |-> EmptyMap]

\* ---------------------------------------------------------------- environment
\* An event source's StartConsuming pushes one more event into the sink.
StartConsuming(src, k) ==
    /\ published < MaxEvents
    /\ CanSend(EventSink, SinkMaxSize)
    /\ published' = published + 1
    /\ EventSink' = ChanSend(EventSink, [id |-> published + 1, subject |-> k.subject, type |-> k.type])
    /\ UNCHANGED <<storage, chanCap, EventChannel, mainPC, event, matchingTriggers, fwd, ret,
                   updateVars, procVars, ckptVars, histVars>>

\* Another process registers a trigger under a key the collection does not hold yet.
RegisterTrigger(k, json) ==
    /\ mainPC # "start"
    /\ k \notin DOMAIN storage
    /\ storage' = [x \in DOMAIN storage \cup {k} |-> IF x = k THEN json ELSE storage[x]]
    /\ UNCHANGED <<chanCap, published, EventChannel, dispatchVars, updateVars,
                   procVars, ckptVars, histVars>>

\* ---------------------------------------------------------------- updateTriggers
\* Line 100: the Get that opens a reconciliation.
Get == storage

\* Lines 102-126 with a return in the place of the continue of line 108.
updateTriggers_ItemAbort(triggerID) ==
    /\ mainPC = "update"
    /\ newTrigger = 0
    /\ triggerID \in toVisit
    /\ LET r == UnmarshalJSONTrigger(allTriggers[triggerID]) IN
         /\ toVisit' = IF triggerID \notin DOMAIN Triggers /\ r.err
                       THEN {} ELSE toVisit \ {triggerID}
         /\ IF triggerID \in DOMAIN Triggers \/ r.err
            THEN UNCHANGED <<Triggers, heap, newTrigger, actIdx>>
            ELSE /\ Len(heap) < MaxTriggerObjects
                 /\ heap' = Append(heap, r.trigger)
                 /\ Triggers' = SetTrigger(Triggers, r.trigger.TriggerID, Len(heap) + 1)
                 /\ newTrigger' = Len(heap) + 1
                 /\ actIdx' = 1
    /\ UNCHANGED <<storage, chanCap, published, EventChannel, dispatchVars,
                   TriggerEventMapping, allTriggers, procVars, ckptVars, histVars>>

\* Lines 102-112 for one key of allTriggers, in the order the map range yields.
updateTriggers_Item(triggerID) ==
    /\ mainPC = "update"
    /\ newTrigger = 0
    /\ triggerID \in toVisit
    /\ toVisit' = toVisit \ {triggerID}
    /\ LET r == UnmarshalJSONTrigger(allTriggers[triggerID]) IN
         IF triggerID \in DOMAIN Triggers \/ r.err
         THEN UNCHANGED <<Triggers, heap, newTrigger, actIdx>>
         ELSE /\ Len(heap) < MaxTriggerObjects
              /\ heap' = Append(heap, r.trigger)
              /\ Triggers' = SetTrigger(Triggers, r.trigger.TriggerID, Len(heap) + 1)
              /\ newTrigger' = Len(heap) + 1
              /\ actIdx' = 1
    /\ UNCHANGED <<storage, chanCap, published, EventChannel, dispatchVars,
                   TriggerEventMapping, allTriggers, procVars, ckptVars, histVars>>

\* Lines 114-125 for one activation event of newTrigger.
updateTriggers_ActEvt ==
    /\ mainPC = "update"
    /\ newTrigger # 0
    /\ LET evts == heap[newTrigger].ActivationEvents
           actEvt == evts[actIdx]
       IN /\ TriggerEventMapping' =
                AppendIndex(TriggerEventMapping, actEvt.subject, actEvt.type, newTrigger)
          /\ IF actIdx < Len(evts)
             THEN actIdx' = actIdx + 1 /\ UNCHANGED newTrigger
             ELSE actIdx' = 0 /\ newTrigger' = 0
    /\ UNCHANGED <<storage, chanCap, published, EventChannel, dispatchVars,
                   Triggers, heap, allTriggers, toVisit, procVars, ckptVars, histVars>>

\* Line 131-132: the range is over, updateTriggers returns to its caller.
updateTriggers_Return ==
    /\ mainPC = "update"
    /\ newTrigger = 0
    /\ toVisit = {}
    /\ mainPC' = ret
    /\ UNCHANGED <<storage, chanCap, published, EventChannel, EventSink, event,
                   matchingTriggers, fwd, ret, updateVars, procVars, ckptVars, histVars>>

\* ---------------------------------------------------------------- ProcessWorkspace
\* Line 56: the initial load of the trigger cache.
ProcessWorkspace_Load ==
    /\ mainPC = "start"
    /\ mainPC' = "update"
    /\ ret' = "spawn"
    /\ allTriggers' = Get
    /\ toVisit' = DOMAIN Get
    /\ UNCHANGED <<storage, chanCap, published, EventChannel, EventSink, event,
                   matchingTriggers, fwd, Triggers, TriggerEventMapping, heap,
                   newTrigger, actIdx, procVars, ckptVars, histVars>>

\* Lines 58-60 with a processor for every trigger object ever built.
ProcessWorkspace_SpawnAll ==
    /\ mainPC = "spawn"
    /\ proc' = [o \in Objs |-> IF o \in 1..Len(heap) THEN "idle" ELSE proc[o]]
    /\ mainPC' = "recv"
    /\ UNCHANGED <<storage, Triggers, TriggerEventMapping, heap, EventChannel, chanCap,
                   EventSink, published, event, matchingTriggers, fwd, ret, updateVars,
                   cur, evaluated, fired, scheduled, failed, verdict, ckptVars, histVars>>

\* Lines 58-60: one processTrigger goroutine per trigger of the registry.
ProcessWorkspace_Spawn ==
    /\ mainPC = "spawn"
    /\ mainPC' = "recv"
    /\ proc' = [o \in Objs |-> IF o \in Range(Triggers) THEN "idle" ELSE proc[o]]
    /\ UNCHANGED <<storage, chanCap, published, EventChannel, EventSink, event,
                   matchingTriggers, fwd, ret, updateVars, cur, evaluated, fired,
                   scheduled, failed, verdict, ckptVars, histVars>>

\* Lines 62-63, hit: take the next event, its index entry exists.
ProcessWorkspace_Hit ==
    /\ mainPC = "recv"
    /\ EventSink # <<>>
    /\ LET e == ChanRecvValue(EventSink) IN
         /\ HasEntry(TriggerEventMapping, e.subject, e.type)
         /\ event' = e
         /\ matchingTriggers' = Lookup(TriggerEventMapping, e.subject, e.type)
         /\ fwd' = 1
         /\ mainPC' = IF Lookup(TriggerEventMapping, e.subject, e.type) = <<>>
                       THEN "recv" ELSE "forward"
         /\ hits' = Append(hits, e.id)
         /\ receipt' = [miss |-> FALSE, updates |-> 0, resubmitted |-> <<>>, forwards |-> 0]
    /\ EventSink' = ChanRecvRest(EventSink)
    /\ UNCHANGED <<storage, chanCap, published, EventChannel, ret, updateVars,
                   procVars, ckptVars, delivered, lastRun>>

\* Line 65: trg.EventChannel <- event for the next matching trigger.  On an
\* unbuffered channel the send completes when the processor takes the value.
ProcessWorkspace_Forward ==
    /\ mainPC = "forward"
    /\ LET trg == matchingTriggers[fwd] IN
         /\ IF chanCap = 0
            THEN /\ proc[trg] = "idle"
                 /\ proc' = [proc EXCEPT ![trg] = "evaluating"]
                 /\ cur' = [cur EXCEPT ![trg] = event]
                 /\ UNCHANGED EventChannel
            ELSE /\ CanSend(EventChannel[trg], chanCap)
                 /\ EventChannel' = [EventChannel EXCEPT ![trg] = ChanSend(@, event)]
                 /\ UNCHANGED <<proc, cur>>
         /\ delivered' = [delivered EXCEPT ![trg] = Append(@, event.id)]
    /\ receipt' = [receipt EXCEPT !.forwards = @ + 1]
    /\ IF fwd < Len(matchingTriggers)
       THEN fwd' = fwd + 1 /\ UNCHANGED mainPC
       ELSE fwd' = 0 /\ mainPC' = "recv"
    /\ UNCHANGED <<storage, chanCap, published, EventSink, event, matchingTriggers, ret,
                   updateVars, evaluated, fired, scheduled, failed, verdict, ckptVars, hits,
                   lastRun>>

\* A miss that re-submits the event without refreshing the trigger cache.
ProcessWorkspace_MissNoUpdate ==
    /\ mainPC = "recv"
    /\ EventSink # <<>>
    /\ LET e == ChanRecvValue(EventSink) IN
         /\ ~HasEntry(TriggerEventMapping, e.subject, e.type)
         /\ event' = e
    /\ EventSink' = ChanRecvRest(EventSink)
    /\ mainPC' = "resubmit"
    /\ receipt' = [miss |-> TRUE, updates |-> 0, resubmitted |-> <<>>, forwards |-> 0]
    /\ UNCHANGED <<storage, chanCap, published, EventChannel, matchingTriggers, fwd, ret,
                   updateVars, procVars, ckptVars, hits, delivered, lastRun>>

\* Lines 62-63 and 67-69, miss: take the next event, no index entry: updateTriggers().
ProcessWorkspace_Miss ==
    /\ mainPC = "recv"
    /\ EventSink # <<>>
    /\ LET e == ChanRecvValue(EventSink) IN
         /\ ~HasEntry(TriggerEventMapping, e.subject, e.type)
         /\ event' = e
    /\ EventSink' = ChanRecvRest(EventSink)
    /\ mainPC' = "update"
    /\ ret' = "resubmit"
    /\ allTriggers' = Get
    /\ toVisit' = DOMAIN Get
    /\ receipt' = [miss |-> TRUE, updates |-> 1, resubmitted |-> <<>>, forwards |-> 0]
    /\ lastRun' = [read |-> allTriggers, Triggers |-> Triggers, index |-> TriggerEventMapping]
    /\ UNCHANGED <<storage, chanCap, published, EventChannel, matchingTriggers, fwd,
                   Triggers, TriggerEventMapping, heap, newTrigger, actIdx,
                   procVars, ckptVars, hits, delivered>>

\* Line 70: workspace.EventSink <- event.
ProcessWorkspace_Resubmit ==
    /\ mainPC = "resubmit"
    /\ CanSend(EventSink, SinkMaxSize)
    /\ EventSink' = ChanSend(EventSink, event)
    /\ mainPC' = "recv"
    /\ receipt' = [receipt EXCEPT !.resubmitted = Append(@, event)]
    /\ UNCHANGED <<storage, chanCap, published, EventChannel, event, matchingTriggers,
                   fwd, ret, updateVars, procVars, ckptVars, hits, delivered, lastRun>>

\* ---------------------------------------------------------------- processTrigger
\* Line 76: the processor takes the next event of its buffered channel.
processTrigger_Recv(trg) ==
    /\ proc[trg] = "idle"
    /\ EventChannel[trg] # <<>>
    /\ cur' = [cur EXCEPT ![trg] = ChanRecvValue(EventChannel[trg])]
    /\ EventChannel' = [EventChannel EXCEPT ![trg] = ChanRecvRest(@)]
    /\ proc' = [proc EXCEPT ![trg] = "evaluating"]
    /\ UNCHANGED <<storage, chanCap, published, dispatchVars, updateVars,
                   evaluated, fired, scheduled, failed, verdict, ckptVars, histVars>>

\* An error that is logged and lets the loop go on to the next event.
OnErrorContinue == "idle"
\* What a failed condition or action leads to (lines 80-83 and 87-90): return.
OnError == "terminated"

\* Lines 79-86 with the condition's result ignored.
processTrigger_ConditionFireAnyway(trg, result) ==
    /\ proc[trg] = "evaluating"
    /\ evaluated' = [evaluated EXCEPT ![trg] = Append(@, cur[trg].id)]
    /\ proc' = [proc EXCEPT ![trg] = IF result = "error" THEN OnError ELSE "firing"]
    /\ failed' = IF result = "error" THEN failed \cup {trg} ELSE failed
    /\ verdict' = [verdict EXCEPT ![trg] = result]
    /\ UNCHANGED <<storage, chanCap, published, EventChannel, dispatchVars, updateVars,
                   cur, fired, scheduled, ckptVars, histVars>>

\* Lines 78-85: the condition runs on the event; an error ends the goroutine.
processTrigger_Condition(trg, result) ==
    /\ proc[trg] = "evaluating"
    /\ evaluated' = [evaluated EXCEPT ![trg] = Append(@, cur[trg].id)]
    /\ proc' = [proc EXCEPT ![trg] =
                  CASE result = "error" -> OnError
                    [] result = "true" -> "firing"
                    [] OTHER -> "idle"]
    /\ failed' = IF result = "error" THEN failed \cup {trg} ELSE failed
    /\ verdict' = [verdict EXCEPT ![trg] = result]
    /\ UNCHANGED <<storage, chanCap, published, EventChannel, dispatchVars, updateVars,
                   cur, fired, scheduled, ckptVars, histVars>>

\* Lines 87-91 with the failing trigger taken out of the registry by its processor.
processTrigger_ActionUnregister(trg, err) ==
    /\ proc[trg] = "firing"
    /\ fired' = [fired EXCEPT ![trg] = Append(@, cur[trg].id)]
    /\ IF err
       THEN /\ proc' = [proc EXCEPT ![trg] = OnError]
            /\ failed' = failed \cup {trg}
            /\ Triggers' = [id \in DOMAIN Triggers \ {heap[trg].TriggerID} |-> Triggers[id]]
            /\ UNCHANGED <<ckptStarted, scheduled>>
       ELSE /\ proc' = [proc EXCEPT ![trg] = "idle"]
            /\ UNCHANGED <<failed, Triggers>>
            /\ ckptStarted' = ckptStarted + 1
            /\ scheduled' = [scheduled EXCEPT ![trg] = Append(@, cur[trg].id)]
    /\ UNCHANGED <<storage, chanCap, published, EventChannel, dispatchVars,
                   TriggerEventMapping, heap, allTriggers, toVisit, newTrigger, actIdx,
                   cur, evaluated, verdict, ckptWaiting, CheckpointChannel, commits, puts,
                   histVars>>

\* Lines 86-93: the action runs; an error ends the goroutine, a success starts
\* a checkpointTriggers goroutine.
processTrigger_Action(trg, err) ==
    /\ proc[trg] = "firing"
    /\ fired' = [fired EXCEPT ![trg] = Append(@, cur[trg].id)]
    /\ IF err
       THEN /\ proc' = [proc EXCEPT ![trg] = OnError]
            /\ failed' = failed \cup {trg}
            /\ UNCHANGED <<ckptStarted, scheduled>>
       ELSE /\ proc' = [proc EXCEPT ![trg] = "idle"]
            /\ UNCHANGED failed
            /\ ckptStarted' = ckptStarted + 1
            /\ scheduled' = [scheduled EXCEPT ![trg] = Append(@, cur[trg].id)]
    /\ UNCHANGED <<storage, chanCap, published, EventChannel, dispatchVars, updateVars,
                   cur, evaluated, verdict, ckptWaiting, CheckpointChannel, commits, puts,
                   histVars>>

\* Lines 191-193 stopping after the first event source.
checkpointTriggers_FirstSource ==
    /\ ckptStarted > 0
    /\ ckptStarted' = ckptStarted - 1
    /\ commits' = [commits EXCEPT !["es1"] = @ + 1]
    /\ puts' = puts \o [i \in 1..Len(CheckpointChannel) |->
                          [trg |-> CheckpointChannel[i],
                           key |-> heap[CheckpointChannel[i]].TriggerID,
                           value |-> MarshalJSONTrigger(heap[CheckpointChannel[i]])]]
    /\ CheckpointChannel' = <<>>
    /\ ckptWaiting' = ckptWaiting + 1
    /\ UNCHANGED <<storage, chanCap, published, EventChannel, dispatchVars, updateVars,
                   procVars, histVars>>

\* ---------------------------------------------------------------- checkpointTriggers
\* Lines 190-203: commit every event source, then range over CheckpointChannel:
\* every trigger offered on it is marshalled and Put; the goroutine then waits
\* for the next one.
checkpointTriggers ==
    /\ ckptStarted > 0
    /\ ckptStarted' = ckptStarted - 1
    /\ commits' = [s \in EventSourceNames |-> commits[s] + 1]
    /\ puts' = puts \o [i \in 1..Len(CheckpointChannel) |->
                          [trg |-> CheckpointChannel[i],
                           key |-> heap[CheckpointChannel[i]].TriggerID,
                           value |-> MarshalJSONTrigger(heap[CheckpointChannel[i]])]]
    /\ CheckpointChannel' = <<>>
    /\ ckptWaiting' = ckptWaiting + 1
    /\ UNCHANGED <<storage, chanCap, published, EventChannel, dispatchVars, updateVars,
                   procVars, histVars>>

\* ---------------------------------------------------------------- specification
MainNext ==
    \/ ProcessWorkspace_Load
    \/ \E k \in Keys : updateTriggers_Item(k)
    \/ updateTriggers_ActEvt
    \/ updateTriggers_Return
    \/ ProcessWorkspace_Spawn
    \/ ProcessWorkspace_Hit
    \/ ProcessWorkspace_Forward
    \/ ProcessWorkspace_Miss
    \/ ProcessWorkspace_Resubmit

ProcNext(trg) ==
    \/ processTrigger_Recv(trg)
    \/ \E result \in {"true", "false", "error"} : processTrigger_Condition(trg, result)
    \/ \E err \in BOOLEAN : processTrigger_Action(trg, err)

Next ==
    \/ \E src \in EventSourceNames, k \in EventKinds : StartConsuming(src, k)
    \/ \E k \in Keys, json \in Payloads : RegisterTrigger(k, json)
    \/ MainNext
    \/ \E trg \in Objs : ProcNext(trg)
    \/ checkpointTriggers

Spec == Init /\ [][Next]_vars

\* The Go scheduler runs every goroutine that can take a step.
FairSpec ==
    /\ Spec
    /\ WF_vars(MainNext)
    /\ \A trg \in Objs : WF_vars(ProcNext(trg))
    /\ WF_vars(checkpointTriggers)

\* ---------------------------------------------------------------- properties
\* The trigger a well-formed payload holds.
StoredAs(json) == UnmarshalJSONTrigger(json).trigger

\* updateTriggers has just returned to its caller.
JustReconciled == mainPC \in {"spawn", "resubmit"}

\* The index entry of an activation event holds an object that is the trigger trg.
Indexed(trg, actEvt) ==
    /\ HasEntry(TriggerEventMapping, actEvt.subject, actEvt.type)
    /\ \E o \in Range(TriggerEventMapping[actEvt.subject][actEvt.type]) : heap[o] = trg

\* C1: when updateTriggers returns, every well-formed trigger that its Get read
\* has its identifier as a key of the registry, and the index entry of each of
\* its activation events contains it.
C1_ReconcilePostcondition ==
    JustReconciled =>
        \A k \in DOMAIN allTriggers :
            allTriggers[k].wellFormed =>
                LET T == StoredAs(allTriggers[k]) IN
                  /\ T.TriggerID \in DOMAIN Triggers
                  /\ \A i \in DOMAIN T.ActivationEvents : Indexed(T, T.ActivationEvents[i])

\* C2: a run of updateTriggers that reads the same collection as the run before
\* it leaves the registry and the index as that run left them.
C2_ReconcileIdempotent ==
    (mainPC = "resubmit" /\ allTriggers = lastRun.read) =>
        /\ Triggers = lastRun.Triggers
        /\ TriggerEventMapping = lastRun.index

\* Position of an event id in a sequence of ids that holds it.
Pos(seq, id) == CHOOSE i \in 1..Len(seq) : seq[i] = id

\* C3: a trigger's processor evaluates the events in the order in which the
\* dispatch loop took them from the sink on an index hit (an event re-queued by
\* a miss counts from the take that hit).
C3_PerTriggerFIFO ==
    \A o \in Objs :
        \A i, j \in 1..Len(evaluated[o]) :
            i < j => Pos(hits, evaluated[o][i]) <= Pos(hits, evaluated[o][j])

\* Some processor has evaluated two different events.
C3_Witness ==
    \E o \in Objs :
        \E i, j \in 1..Len(evaluated[o]) : i < j /\ evaluated[o][i] # evaluated[o][j]

\* C4: for a receipt that missed the index, updateTriggers was called once,
\* nothing was forwarded, and once updateTriggers has returned the same event
\* is re-submitted to the sink once.
C4_MissHandling ==
    receipt.miss =>
        /\ receipt.updates = 1
        /\ receipt.forwards = 0
        /\ mainPC \in {"update", "resubmit", "recv"}
        /\ mainPC \in {"update", "resubmit"} => receipt.resubmitted = <<>>
        /\ mainPC = "recv" =>
              /\ receipt.resubmitted = <<event>>
              /\ \E i \in 1..Len(EventSink) : EventSink[i] = event

\* The dispatch loop has handled a miss to its end.
C4_Witness ==
    receipt.miss /\ mainPC = "recv" /\ receipt.resubmitted = <<event>>

\* Checkpoint requests for an object that were ever put on CheckpointChannel:
\* those still offered and those the coordinator took and wrote.
EnqueuedFor(o) ==
    Cardinality({ i \in 1..Len(CheckpointChannel) : CheckpointChannel[i] = o })
    + Cardinality({ i \in 1..Len(puts) : puts[i].trg = o })

\* C5: a trigger whose condition was true once, and whose processor is back at
\* its queue, has had its action invoked once and has one checkpoint request
\* enqueued on CheckpointChannel.
C5_OneFireOneCheckpointRequest ==
    \A o \in Objs :
        (Len(scheduled[o]) = 1 /\ proc[o] = "idle") =>
            (Len(fired[o]) = 1 /\ EnqueuedFor(o) = 1)

\* The scenario of C6: the collection holds t1 alone, declared for
\* (orders, created); one event (orders, created) was published and t1's action
\* has fired on it.
T1 == StoredTrigger("t1", <<OrdersCreated>>)
Scenario ==
    /\ storage = [k \in {"t1"} |-> T1]
    /\ published = 1
ScenarioFired ==
    /\ Scenario
    /\ \E o \in 1..Len(heap) :
          heap[o] = StoredAs(T1) /\ fired[o] = <<1>> /\ scheduled[o] = <<1>>

\* C6: in that scenario the fire leads to exactly one Put of t1 on the
\* "triggers" collection (unless more is registered or published meanwhile).
C6_ScenarioCheckpointWrite ==
    ScenarioFired ~>
        (\/ Cardinality({ i \in 1..Len(puts) : puts[i].key = "t1" }) = 1
         \/ ~Scenario)

\* Objects that are the same trigger as o: they carry its identifier.
SameTrigger(o) == { x \in 1..Len(heap) : heap[x].TriggerID = heap[o].TriggerID }

\* C7: a trigger whose condition or action returned an error has its processor
\* terminated for good: no condition and no action of that trigger runs again,
\* and the step that fails schedules no checkpoint.
C7_FailStop ==
    [][ \A o \in Objs :
          /\ o \in failed' => proc'[o] = "terminated"
          /\ (o \notin failed /\ o \in failed') =>
                (scheduled' = scheduled /\ ckptStarted' = ckptStarted)
          /\ o \in failed =>
                \A x \in SameTrigger(o) :
                    /\ evaluated'[x] = evaluated[x]
                    /\ fired'[x] = fired[x]
                    /\ scheduled'[x] = scheduled[x] ]_vars

\* A failed trigger has a later event waiting on its channel.
C7_Witness ==
    \E o \in failed : Len(delivered[o]) > Len(evaluated[o])

\* The dispatch loop is sending to a trigger whose processor ended on an error.
ForwardingToFailed == mainPC = "forward" /\ matchingTriggers[fwd] \in failed

\* C8 (the dispatch path): a terminated processor does not hold up the dispatch
\* loop: a forward to its trigger completes and the loop goes on.
C8_DispatchUnaffected == ForwardingToFailed ~> ~ForwardingToFailed

\* C9: a finished dispatch has delivered the event to every matching trigger,
\* and no trigger is ever sent the same event twice.
C9_FanOutOnce ==
    /\ (mainPC = "recv" /\ hits # <<>> /\ ~receipt.miss) =>
          \A i \in 1..Len(matchingTriggers) :
              event.id \in Range(delivered[matchingTriggers[i]])
    /\ \A o \in Objs :
          \A i, j \in 1..Len(delivered[o]) : i # j => delivered[o][i] # delivered[o][j]

\* C10: whenever a processor exists (it holds the registry and the index in its
\* context), every trigger of the registry is in the index entry of each of its
\* activation events, and every trigger of the index is in the registry.
C10_RegistryIndexConsistent ==
    (\E o \in Objs : proc[o] # "none") =>
        /\ \A id \in DOMAIN Triggers :
              \A i \in 1..Len(heap[Triggers[id]].ActivationEvents) :
                  LET a == heap[Triggers[id]].ActivationEvents[i] IN
                    /\ HasEntry(TriggerEventMapping, a.subject, a.type)
                    /\ Triggers[id] \in Range(TriggerEventMapping[a.subject][a.type])
        /\ \A s \in DOMAIN TriggerEventMapping :
              \A t \in DOMAIN TriggerEventMapping[s] :
                  \A o \in Range(TriggerEventMapping[s][t]) : o \in Range(Triggers)

IndexedObjects ==
    UNION { UNION { Range(TriggerEventMapping[s][t]) : t \in DOMAIN TriggerEventMapping[s] }
            : s \in DOMAIN TriggerEventMapping }

Processors(o) == { x \in SameTrigger(o) : proc[x] # "none" }

\* C11: while the dispatch loop runs, every trigger of the registry has exactly
\* one processor, and every trigger reachable through the index has a processor
\* (a terminated one counts), triggers admitted by a reconciliation after
\* startup included.
C11_ProcessorPerTrigger ==
    mainPC \in {"recv", "forward"} =>
        /\ \A id \in DOMAIN Triggers :
              /\ proc[Triggers[id]] # "none"
              /\ Cardinality(Processors(Triggers[id])) = 1
        /\ \A o \in IndexedObjects : Processors(o) # {}

InProgress(o) == proc[o] \in {"evaluating", "firing"}

Received(o) == Len(delivered[o]) - Len(EventChannel[o])

\* C12: no two evaluations of the same trigger are in progress at once, and a
\* processor has finished the condition of every event it received before the
\* one it is evaluating.
C12_MutualExclusion ==
    \A o \in 1..Len(heap) :
        /\ InProgress(o) => \A x \in SameTrigger(o) \ {o} : ~InProgress(x)
        /\ Len(evaluated[o]) = Received(o) - (IF proc[o] = "evaluating" THEN 1 ELSE 0)

C12_Witness ==
    \E o \in 1..Len(heap) :
        /\ proc[o] = "evaluating"
        /\ Len(evaluated[o]) >= 1
        /\ Cardinality(SameTrigger(o)) > 1

SinkFull == ~CanSend(EventSink, SinkMaxSize)

\* The reconciliation run on a miss has returned, and trigger object o is in
\* the registry and in the index entry of the missed event, id n.
Healed(o, n) ==
    /\ mainPC = "resubmit"
    /\ event.id = n
    /\ o \in Range(Triggers)
    /\ HasEntry(TriggerEventMapping, event.subject, event.type)
    /\ o \in Range(Lookup(TriggerEventMapping, event.subject, event.type))

\* C13: when an event misses and the reconciliation run finds a matching
\* trigger in storage, the re-submitted event is eventually forwarded to that
\* trigger and the trigger's condition is eventually evaluated on it (the case
\* of a re-submission held up by a full sink set aside).
C13_SelfHealing ==
    \A o \in Objs : \A n \in 1..MaxEvents :
        Healed(o, n) ~> \/ n \in Range(delivered[o]) /\ n \in Range(evaluated[o])
                        \/ mainPC = "resubmit" /\ SinkFull

\* The dispatch loop waits at line 65 on a trigger whose processor is busy.
WaitingOnBusy ==
    /\ mainPC = "forward"
    /\ InProgress(matchingTriggers[fwd])
    /\ event.id \notin Range(delivered[matchingTriggers[fwd]])
    /\ IF chanCap = 0 THEN TRUE ELSE ~CanSend(EventChannel[matchingTriggers[fwd]], chanCap)

\* Trigger object o could take the event now.
Ready(o) == IF chanCap = 0 THEN proc[o] = "idle" ELSE CanSend(EventChannel[o], chanCap)

\* C14: a forward never waits on another trigger: while the loop waits on a
\* busy trigger, no other matching trigger that could take the event is still
\* waiting for it.
C14_IndependentForwards ==
    WaitingOnBusy =>
        \A j \in (fwd + 1)..Len(matchingTriggers) :
            matchingTriggers[j] # matchingTriggers[fwd] => ~Ready(matchingTriggers[j])

\* C15: the dispatcher's re-submission of a missed event to the sink always
\* completes.
C15_ResubmitCompletes == (mainPC = "resubmit") ~> (mainPC # "resubmit")

RECURSIVE Fires(_, _)
Fires(sched, n) == IF n = 0 THEN 0 ELSE Len(sched[n]) + Fires(sched, n - 1)

\* C16: CommitEvents runs only for an action that completed without error, in
\* the coordinator and not in the step of the processor that fired, and every
\* successful fire starts a coordinator that runs it on every event source.
C16_CommitOnFire ==
    [][ /\ \A s \in EventSourceNames :
              commits'[s] + ckptStarted' = Fires(scheduled', MaxTriggerObjects)
        /\ commits' # commits => ckptStarted' = ckptStarted - 1 /\ UNCHANGED procVars
        /\ scheduled' # scheduled =>
              /\ ckptStarted' = ckptStarted + 1
              /\ \E o \in Objs : proc[o] = "firing" /\ o \notin failed'
      ]_vars

C16_Witness ==
    /\ \A s \in EventSourceNames : commits[s] >= 1
    /\ \E o \in Objs : o \in failed /\ fired[o] # <<>> /\ scheduled[o] = <<>>

Last(seq) == seq[Len(seq)]

\* C17: the action runs on an event only after the condition was evaluated on
\* that event and returned true; a false condition leaves the action and the
\* checkpoint alone; after a false condition and after a successful fire the
\* processor is idle again, and an idle processor with a queued event can take
\* it whatever the coordinators are doing.
C17_ProcessorStateMachine ==
    /\ [](\A o \in Objs : (proc[o] = "idle" /\ EventChannel[o] # <<>>) =>
                              ENABLED processTrigger_Recv(o))
    /\ [][ \A o \in Objs :
             /\ fired'[o] # fired[o] =>
                   /\ verdict[o] = "true"
                   /\ evaluated[o] # <<>> /\ Last(evaluated[o]) = cur[o].id
                   /\ fired'[o] = Append(fired[o], cur[o].id)
             /\ (evaluated'[o] # evaluated[o] /\ verdict'[o] = "false") =>
                   /\ proc'[o] = "idle"
                   /\ UNCHANGED <<fired, scheduled, ckptVars>>
             /\ scheduled'[o] # scheduled[o] => proc'[o] = "idle"
         ]_vars

C17_Witness ==
    \E o, x \in Objs :
        /\ proc[o] = "evaluating" /\ scheduled[o] # <<>> /\ ckptWaiting >= 1
        /\ proc[x] = "evaluating" /\ verdict[x] = "false"

\* Trigger trg is in the registry and in the index entry of each of its events.
Added(trg) ==
    /\ trg.TriggerID \in DOMAIN Triggers
    /\ \A i \in 1..Len(trg.ActivationEvents) : Indexed(trg, trg.ActivationEvents[i])

\* The items of the run just returned that it had to add: well-formed, their
\* key not in the registry when the run started and not the identifier of
\* another item.
ToAdd ==
    { k \in DOMAIN allTriggers :
        /\ allTriggers[k].wellFormed
        /\ k \notin DOMAIN lastRun.Triggers
        /\ \A k2 \in DOMAIN allTriggers \ {k} : allTriggers[k2].TriggerID # k }

HasMalformed == \E k \in DOMAIN allTriggers : ~allTriggers[k].wellFormed

\* C18: a stored payload that does not deserialize adds nothing to the registry
\* and the index, and the run that met it still adds every well-formed stored
\* trigger not yet present locally to both, in whatever order the items are
\* visited.
C18_ErrorIsolation ==
    /\ []((JustReconciled /\ HasMalformed) =>
             \A k \in ToAdd : Added(StoredAs(allTriggers[k])))
    /\ [][ (mainPC = "update" /\ \E k \in toVisit \ toVisit' : ~allTriggers[k].wellFormed) =>
               UNCHANGED <<Triggers, TriggerEventMapping, heap>> ]_vars

C18_Witness ==
    /\ JustReconciled /\ HasMalformed /\ ToAdd # {}
    /\ \A k \in ToAdd : Added(StoredAs(allTriggers[k]))

\* C19: the registry and the index change only in steps of the reconciliation,
\* which runs in the bootstrap and dispatch context: such a step is no step of
\* a processor, a coordinator or an event source, and the registry is not
\* written while a trigger is still being indexed.
C19_SingleWriter ==
    [][ (Triggers' # Triggers \/ TriggerEventMapping' # TriggerEventMapping) =>
           /\ mainPC = "update" /\ mainPC' = "update"
           /\ UNCHANGED <<procVars, ckptVars, EventSink, EventChannel, published, storage>>
           /\ Triggers' # Triggers => newTrigger = 0 /\ newTrigger' # 0
           /\ TriggerEventMapping' # TriggerEventMapping =>
                 newTrigger # 0 /\ UNCHANGED Triggers
      ]_vars

C19_Witness ==
    /\ mainPC = "update" /\ ret = "resubmit" /\ newTrigger # 0
    /\ \E o \in Objs : InProgress(o)
    /\ ckptWaiting >= 1

Declares(o, e) ==
    \E i \in 1..Len(heap[o].ActivationEvents) :
        heap[o].ActivationEvents[i] = ActEvt(e.subject, e.type)

\* C20: an event is on a trigger's queue, or in the hands of its processor,
\* only if the event's (subject, type) is one of the trigger's activation
\* events.
C20_RoutingSound ==
    \A o \in 1..Len(heap) :
        /\ \A i \in 1..Len(EventChannel[o]) : Declares(o, EventChannel[o][i])
        /\ cur[o] # NoEvent => Declares(o, cur[o])

C20_Witness ==
    \E o, x \in Range(Triggers) :
        /\ cur[o] # NoEvent /\ ~Declares(x, cur[o])
        /\ proc[x] = "idle" /\ mainPC = "recv" /\ cur[x] = NoEvent

====
